---- MODULE Spec2Model ----
(***************************************************************************)
(* Model of src/app.py: a Streamlit script that loads three CSV tables,    *)
(* draws a five-band choropleth of per-country accuracy scores and shows   *)
(* a per-question comparison table for a selected country.                 *)
(*                                                                         *)
(* Scores are fixed-point numbers: the integer n stands for n / Scale.     *)
(* Strings that the code takes apart (country labels, column names) are    *)
(* sequences of one-character strings.                                     *)
(***************************************************************************)
EXTENDS Integers, Sequences, FiniteSets, TLC

VARIABLES
  files,              \* the three CSV files of the data directory
  sort_ties,          \* order the build's quicksort leaves equal keys in
  cache,              \* st.cache_data entry of load_data: <<>> or <<result>>
  session,            \* "new" before the first run of a browser session
  selected_approach,  \* value of the radio widget
  selected_country,   \* value of the selectbox widget
  delta_df,           \* script globals as the last run left them
  baseline_df,
  et_df,
  notices,            \* st.error notices of the last run
  fig,                \* the map section of the last run
  metrics,            \* the three st.metric values, or <<>>
  detail,             \* what the country detail section showed
  combined_scores,    \* rows appended by the comparison loop
  scores_df,          \* the frame handed to st.dataframe
  crashed,            \* the run ended in an exception nothing caught
  score,              \* argument of the score classifier
  classified,         \* its result
  label,              \* a raw country label
  cleaned             \* the keys load_data gives it in the three tables

appVars == <<files, sort_ties, cache, session, selected_approach,
             selected_country, delta_df, baseline_df, et_df, notices, fig,
             metrics, detail, combined_scores, scores_df, crashed>>
fnVars == <<score, classified, label, cleaned>>
vars == <<appVars, fnVars>>

----------------------------------------------------------------------------
(* Bounds of the model *)

MaxCountries == 2
NumQuestions == 2
MaxLabelLen == 8

----------------------------------------------------------------------------
(* Numbers *)

Scale == 10^5
Pct(n) == n * (Scale \div 100)

\* np.nan; every score is >= 0, so -1 is free to stand for it
NaN == -1

isnan(x) == x = NaN
notna(x) == x # NaN

\* IEEE comparisons: false as soon as one side is NaN
GE(x, y) == notna(x) /\ notna(y) /\ x >= y
LT(x, y) == notna(x) /\ notna(y) /\ x < y
GT(x, y) == notna(x) /\ notna(y) /\ x > y

\* Python's min(a, b) and max(a, b): the first argument unless the second
\* compares smaller (larger)
PyMin(a, b) == IF LT(b, a) THEN b ELSE a
PyMax(a, b) == IF GT(b, a) THEN b ELSE a

SetMin(S) == CHOOSE m \in S : \A y \in S : m <= y
SetMax(S) == CHOOSE m \in S : \A y \in S : m >= y

\* Series.min() and Series.max(): NaN cells are skipped, NaN when none is left
SeriesMin(cells) ==
  LET S == {cells[i] : i \in DOMAIN cells} \ {NaN}
  IN IF S = {} THEN NaN ELSE SetMin(S)
SeriesMax(cells) ==
  LET S == {cells[i] : i \in DOMAIN cells} \ {NaN}
  IN IF S = {} THEN NaN ELSE SetMax(S)

\* round(4) and the format .4f: to the nearest multiple of Scale / 10^4,
\* halves to the even multiple (numpy's rint)
Round4(x) ==
  LET u == Scale \div 10^4
      lo == (x \div u) * u
      r == x - lo
  IN IF 2 * r < u THEN lo
     ELSE IF 2 * r > u THEN lo + u
     ELSE IF (lo \div u) % 2 = 0 THEN lo ELSE lo + u

----------------------------------------------------------------------------
(* Characters and strings *)

IsSpace(c) == c \in {" ", "\t", "\n", "\r", "\f"}
IsDigit(c) == c \in {"0", "1", "2", "3", "4", "5", "6", "7", "8", "9"}

\* the characters of country labels in code point order
CharOrder == <<"\t", "\n", "\f", "\r", " ", "(", ")",
               "0", "1", "2", "3", "4", "5", "6", "7", "8", "9", "F", "G">>
Ord(c) == CHOOSE i \in DOMAIN CharOrder : CharOrder[i] = c

\* str < str
LexLess(a, b) ==
  \E i \in 1..(Len(a) + 1) :
     /\ \A j \in 1..(i - 1) : j <= Len(b) /\ a[j] = b[j]
     /\ \/ i = Len(a) + 1 /\ Len(b) >= i
        \/ i <= Len(a) /\ i <= Len(b) /\ Ord(a[i]) < Ord(b[i])

\* sorted(S) for a set of strings
sorted(S) ==
  [k \in 1..Cardinality(S) |->
     CHOOSE a \in S : Cardinality({b \in S : LexLess(b, a)}) = k - 1]

\* a cell pandas read as a float NaN instead of a string
NotAString == <<"<NaN>">>
IsString(x) == x # NotAString

----------------------------------------------------------------------------
(* Country name normalizer: re.sub(r'\s*\(\d{4}\)$', '', x) *)

YearDigits == 4

\* $ at position j: the end of the string, or just before a final newline
AtEnd(s, j) == j = Len(s) + 1 \/ (j = Len(s) /\ s[j] = "\n")

\* \(\d{4}\)$ matches from position k
ParenYearAt(s, k) ==
  /\ k + YearDigits + 1 <= Len(s)
  /\ AtEnd(s, k + YearDigits + 2)
  /\ s[k] = "("
  /\ \A d \in 1..YearDigits : IsDigit(s[k + d])
  /\ s[k + YearDigits + 1] = ")"

\* the whole pattern matches from position i, its parenthesis at k
MatchAt(s, i, k) ==
  /\ i <= k
  /\ \A j \in i..(k - 1) : IsSpace(s[j])
  /\ ParenYearAt(s, k)

\* the leftmost match is replaced by ''; nothing can match after it
re_sub_optional_space(s) ==
  LET k == Len(s) - YearDigits - 1
  IN IF k >= 1 /\ ParenYearAt(s, k)
     THEN IF k > 1 /\ IsSpace(s[k - 1]) THEN SubSeq(s, 1, k - 2)
          ELSE SubSeq(s, 1, k - 1)
     ELSE s
re_sub(s) ==
  LET parens == {k \in 1..Len(s) : ParenYearAt(s, k)}
  IN IF parens = {} THEN s
     ELSE LET i == SetMin({j \in 1..Len(s) : \E k \in parens : MatchAt(s, j, k)})
              k == CHOOSE kk \in parens : MatchAt(s, i, kk)
          IN SubSeq(s, 1, i - 1) \o SubSeq(s, k + YearDigits + 2, Len(s))

----------------------------------------------------------------------------
(* Score classifier *)

DarkGreen == "#008000"
LightGreen == "#90EE90"
Yellow == "#FFFF00"
OrangeRed == "#FF4500"
DarkRed == "#8B0000"

get_color(s) ==
  IF GE(s, Pct(95)) THEN DarkGreen
  ELSE IF GE(s, Pct(90)) THEN LightGreen
  ELSE IF GE(s, Pct(85)) THEN Yellow
  ELSE IF GE(s, Pct(80)) THEN OrangeRed
  ELSE DarkRed

get_category_strict(s) ==
  IF GE(s, Pct(95)) THEN 5
  ELSE IF GT(s, Pct(90)) THEN 4
  ELSE IF GE(s, Pct(85)) THEN 3
  ELSE IF GE(s, Pct(80)) THEN 2
  ELSE 1
get_category(s) ==
  IF GE(s, Pct(95)) THEN 5
  ELSE IF GE(s, Pct(90)) THEN 4
  ELSE IF GE(s, Pct(85)) THEN 3
  ELSE IF GE(s, Pct(80)) THEN 2
  ELSE 1

\* the (category, color) pairs of the trace loop, in its order
TraceTableSwapped ==
  << <<5, DarkGreen>>, <<4, Yellow>>, <<3, LightGreen>>,
     <<2, OrangeRed>>, <<1, DarkRed>> >>
TraceTable ==
  << <<5, DarkGreen>>, <<4, LightGreen>>, <<3, Yellow>>,
     <<2, OrangeRed>>, <<1, DarkRed>> >>

----------------------------------------------------------------------------
(* Data frames *)

\* A row of the summary table is a record: country, mean_SJSD_ET,
\* mean_SJSD_Baseline, and country_clean once loaded.  A per-question table
\* is [columns |-> names, rows |-> rows of cells in column order].

C_Country == <<"C", "o", "u", "n", "t", "r", "y">>
C_Country_clean ==
  <<"C", "o", "u", "n", "t", "r", "y", "_", "c", "l", "e", "a", "n">>

\* pd.DataFrame()
EmptyRows == <<>>
EmptyFrame == [columns |-> <<>>, rows |-> <<>>]

HasCol(frame, name) == \E i \in DOMAIN frame.columns : frame.columns[i] = name
ColIndex(frame, name) ==
  CHOOSE i \in DOMAIN frame.columns : frame.columns[i] = name

\* frame[frame[name] == value]
WhereEq(frame, name, value) ==
  LET c == ColIndex(frame, name)
      Hit(row) == row[c] = value
  IN [columns |-> frame.columns, rows |-> SelectSeq(frame.rows, Hit)]

\* frame.iloc[0][name]
First(frame, name) == frame.rows[1][ColIndex(frame, name)]

----------------------------------------------------------------------------
(* load_data *)

Raise(what) ==
  [ok |-> FALSE, error |-> what, delta_df |-> EmptyRows,
   baseline_df |-> EmptyFrame, et_df |-> EmptyFrame]

\* delta_df['country_clean'] = delta_df['country'].apply(...)
CleanDelta(rows) ==
  [i \in DOMAIN rows |->
     [country |-> rows[i].country,
      mean_SJSD_ET |-> rows[i].mean_SJSD_ET,
      mean_SJSD_Baseline |-> rows[i].mean_SJSD_Baseline,
      country_clean |-> re_sub(rows[i].country)]]

\* df['Country_clean'] = df['Country'].apply(...)
CleanQuestions(frame) ==
  LET c == ColIndex(frame, C_Country)
  IN [columns |-> Append(frame.columns, C_Country_clean),
      rows |-> [i \in DOMAIN frame.rows |->
                  Append(frame.rows[i], re_sub(frame.rows[i][c]))]]

\* re.sub raises TypeError on a cell that is not a string
StringLabels(frame) ==
  \A i \in DOMAIN frame.rows : IsString(frame.rows[i][ColIndex(frame, C_Country)])

load_data(fs) ==
  IF ~fs.delta.readable THEN Raise("read_csv delta_sjsd.csv")
  ELSE IF \E i \in DOMAIN fs.delta.rows : ~IsString(fs.delta.rows[i].country)
       THEN Raise("TypeError")
  ELSE IF ~fs.baseline.readable
       THEN Raise("read_csv per_question_sjsd_baseline.csv")
  ELSE IF ~fs.et.readable
       THEN Raise("read_csv per_question_sjsd_electric twin.csv")
  ELSE IF ~StringLabels(fs.baseline) \/ ~StringLabels(fs.et)
       THEN Raise("TypeError")
  ELSE [ok |-> TRUE, error |-> "",
        delta_df |-> CleanDelta(fs.delta.rows),
        baseline_df |-> CleanQuestions(fs.baseline),
        et_df |-> CleanQuestions(fs.et)]

----------------------------------------------------------------------------
(* create_choropleth *)

ElectricTwin == "Electric Twin"
Baseline == "Baseline"
Approaches == {ElectricTwin, Baseline}

col_name(approach) ==
  IF approach = ElectricTwin THEN "mean_SJSD_ET" ELSE "mean_SJSD_Baseline"

Cell(row, col) ==
  IF col = "mean_SJSD_ET" THEN row.mean_SJSD_ET ELSE row.mean_SJSD_Baseline

Column(df, col) == [i \in DOMAIN df |-> Cell(df[i], col)]

\* plot_data: delta_df.copy() with the color and category columns added
PlotData(df, col) ==
  [i \in DOMAIN df |->
     [country |-> df[i].country,
      mean_SJSD_ET |-> df[i].mean_SJSD_ET,
      mean_SJSD_Baseline |-> df[i].mean_SJSD_Baseline,
      country_clean |-> df[i].country_clean,
      color |-> get_color(Cell(df[i], col)),
      category |-> get_category(Cell(df[i], col))]]

\* what delta_df holds once plot_data has got its two columns: plot_data is
\* a copy, so the caller's frame keeps its own columns
AfterPlotAliased(df, plot_data) == plot_data
AfterPlot(df, plot_data) == df

min_val_nofloor(df, col) == SeriesMin(Column(df, col))
min_val(df, col) == PyMin(SeriesMin(Column(df, col)), Pct(50))
max_val(df, col) == PyMax(SeriesMax(Column(df, col)), Pct(100))

\* one go.Choropleth per non-empty category, in the order of TraceTable
RECURSIVE CategoryTraces(_, _, _)
CategoryTraces(plot_data, col, k) ==
  IF k > Len(TraceTable) THEN <<>>
  ELSE LET InCategory(r) == r.category = TraceTable[k][1]
           category_data == SelectSeq(plot_data, InCategory)
           trace == [category |-> TraceTable[k][1],
                     color |-> TraceTable[k][2],
                     locations |-> [i \in DOMAIN category_data |->
                                      category_data[i].country_clean],
                     z |-> Column(category_data, col)]
       IN (IF Len(category_data) > 0 THEN <<trace>> ELSE <<>>)
          \o CategoryTraces(plot_data, col, k + 1)

NoFigure == [kind |-> "none", traces |-> <<>>, tickvals |-> <<>>]
FigureError == [kind |-> "error", traces |-> <<>>, tickvals |-> <<>>]

create_choropleth(approach, df) ==
  LET col == col_name(approach)
  IN [kind |-> "figure",
      traces |-> CategoryTraces(PlotData(df, col), col, 1),
      tickvals |-> <<min_val(df, col), max_val(df, col)>>]

----------------------------------------------------------------------------
(* Country selection and summary metrics *)

Keys(df) == {df[i].country_clean : i \in DOMAIN df}

\* options=sorted(delta_df['country_clean'].unique())
options(df) == sorted(Keys(df))

\* st.selectbox: the widget's value, the first option when it has none
selectbox(opts, value) ==
  IF \E i \in DOMAIN opts : opts[i] = value THEN value ELSE opts[1]

\* delta_df[delta_df['country_clean'] == selected_country]
Matching(df, country) ==
  LET Hit(row) == row.country_clean = country IN SelectSeq(df, Hit)

summary_et(df, country) ==
  IF Matching(df, country) # <<>> THEN Matching(df, country)[1].mean_SJSD_ET
  ELSE NaN
summary_baseline(df, country) ==
  IF Matching(df, country) # <<>>
  THEN Matching(df, country)[1].mean_SJSD_Baseline
  ELSE NaN

\* the three st.metric values, formatted .4f; <<>> when nothing is displayed
summary_metrics(df, country) ==
  LET et_score == summary_et(df, country)
      baseline_score == summary_baseline(df, country)
  IN IF ~isnan(et_score) /\ ~isnan(baseline_score)
     THEN <<Round4(et_score), Round4(baseline_score),
            Round4(et_score - baseline_score)>>
     ELSE <<>>

----------------------------------------------------------------------------
(* Country detail section *)

\* col.replace('.', ' ')
q_name(col) == [i \in DOMAIN col |-> IF col[i] = "." THEN " " ELSE col[i]]

\* the filter of the comparison loop
IncludedIgnoringZero(et_score, baseline_score) ==
  notna(et_score) /\ notna(baseline_score)
Included(et_score, baseline_score) ==
  /\ notna(et_score) /\ notna(baseline_score)
  /\ et_score # 0 /\ baseline_score # 0

IsIdentity(col) == col \in {C_Country, C_Country_clean}

\* baseline_data.iloc[0][col] raises KeyError for a column it lacks
LoopRaises(et_data, baseline_data) ==
  \E c \in DOMAIN et_data.columns :
     ~IsIdentity(et_data.columns[c]) /\ ~HasCol(baseline_data, et_data.columns[c])

\* combined_scores after the columns from position c on
RECURSIVE CombinedFrom(_, _, _)
CombinedFrom(et_data, baseline_data, c) ==
  IF c > Len(et_data.columns) THEN <<>>
  ELSE LET col == et_data.columns[c]
       IN IF IsIdentity(col) THEN CombinedFrom(et_data, baseline_data, c + 1)
          ELSE LET et_score == et_data.rows[1][c]
                   baseline_score == First(baseline_data, col)
                   row == [Question |-> q_name(col),
                           ElectricTwin |-> et_score,
                           Baseline |-> baseline_score,
                           Difference |-> et_score - baseline_score]
               IN (IF Included(et_score, baseline_score) THEN <<row>> ELSE <<>>)
                  \o CombinedFrom(et_data, baseline_data, c + 1)

\* sort_values('Electric Twin', ascending=False) with the default kind,
\* quicksort, which numpy does not promise to be stable: rows with equal
\* keys come out in the order ties gives their positions
sort_values(rows, ties) ==
  LET Before(j, i) ==
        \/ rows[j].ElectricTwin > rows[i].ElectricTwin
        \/ rows[j].ElectricTwin = rows[i].ElectricTwin /\ ties[j] < ties[i]
  IN [k \in DOMAIN rows |->
        rows[CHOOSE i \in DOMAIN rows :
               Cardinality({j \in DOMAIN rows : Before(j, i)}) = k - 1]]

\* scores_df[col] = scores_df[col].round(4) for the three score columns
round_scores(rows) ==
  [k \in DOMAIN rows |->
     [Question |-> rows[k].Question,
      ElectricTwin |-> Round4(rows[k].ElectricTwin),
      Baseline |-> Round4(rows[k].Baseline),
      Difference |-> Round4(rows[k].Difference)]]

\* if not et_data.empty and not baseline_data.empty
BothFound(et_data, baseline_data) ==
  et_data.rows # <<>> /\ baseline_data.rows # <<>>

NoDetail == [shown |-> "none", combined_scores |-> <<>>, scores_df |-> <<>>,
             crashed |-> FALSE]

country_detail(country, et, baseline, ties) ==
  IF country = <<>> THEN NoDetail
  ELSE
    LET et_data == WhereEq(et, C_Country_clean, country)
        baseline_data == WhereEq(baseline, C_Country_clean, country)
    IN IF BothFound(et_data, baseline_data)
       THEN IF et_data.rows = <<>> \/ baseline_data.rows = <<>>
               \/ LoopRaises(et_data, baseline_data)
            THEN \* iloc[0] on an empty frame, or a missing column
                 [shown |-> "exception", combined_scores |-> <<>>,
                  scores_df |-> <<>>, crashed |-> TRUE]
            ELSE LET combined == CombinedFrom(et_data, baseline_data, 1)
                 IN IF combined = <<>>
                    THEN \* pd.DataFrame([]) has no 'Electric Twin' column:
                         \* sort_values raises KeyError
                         [shown |-> "exception", combined_scores |-> combined,
                          scores_df |-> <<>>, crashed |-> TRUE]
                    ELSE [shown |-> "table", combined_scores |-> combined,
                          scores_df |->
                            round_scores(sort_values(combined, ties)),
                          crashed |-> FALSE]
       ELSE [shown |-> "no_data", combined_scores |-> <<>>,
             scores_df |-> <<>>, crashed |-> FALSE]

----------------------------------------------------------------------------
(* One run of the script, top to bottom *)

\* load_data behind st.cache_data: a stored result is returned as a copy,
\* a raised exception is not stored
cached_load ==
  IF cache # <<>> THEN cache[1] ELSE load_data(files)

\* except Exception as e: st.error(f"Error loading data: {e}")
load_error_swallowed(loaded) == <<>>
load_error_notices(loaded) ==
  IF loaded.ok THEN <<>> ELSE <<"Error loading data">>

\* the script from the try around load_data() to its last line, given what
\* load_data returned or raised
Script(loaded, approach, country, chartFails) ==
  LET \* except Exception: three empty frames
      d == IF loaded.ok THEN loaded.delta_df ELSE EmptyRows
      b == IF loaded.ok THEN loaded.baseline_df ELSE EmptyFrame
      e == IF loaded.ok THEN loaded.et_df ELSE EmptyFrame
  IN IF d = EmptyRows
     THEN \* delta_df.empty: only the closing st.error is shown
          [approach |-> approach, country |-> country,
           delta_df |-> d, baseline_df |-> b, et_df |-> e,
           notices |-> load_error_notices(loaded) \o <<"No data available">>,
           fig |-> NoFigure, metrics |-> <<>>, detail |-> NoDetail]
     ELSE
       LET col == col_name(approach)
           figure == IF chartFails THEN FigureError
                     ELSE create_choropleth(approach, d)
           d2 == IF chartFails THEN d ELSE AfterPlot(d, PlotData(d, col))
           chosen == selectbox(options(d2), country)
       IN [approach |-> approach, country |-> chosen,
           delta_df |-> d2, baseline_df |-> b, et_df |-> e,
           notices |-> IF chartFails THEN <<"Error creating map">> ELSE <<>>,
           fig |-> figure,
           metrics |-> summary_metrics(d2, chosen),
           detail |-> country_detail(chosen, e, b, sort_ties)]

Run(approach, country, chartFails) ==
  \E loaded \in {cached_load} :
  \E r \in {Script(loaded, approach, country, chartFails)} :
     /\ cache' = IF loaded.ok THEN <<loaded>> ELSE cache
     /\ session' = "live"
     /\ selected_approach' = r.approach
     /\ selected_country' = r.country
     /\ delta_df' = r.delta_df
     /\ baseline_df' = r.baseline_df
     /\ et_df' = r.et_df
     /\ notices' = r.notices
     /\ fig' = r.fig
     /\ metrics' = r.metrics
     /\ detail' = r.detail.shown
     /\ combined_scores' = r.detail.combined_scores
     /\ scores_df' = r.detail.scores_df
     /\ crashed' = r.detail.crashed
     /\ UNCHANGED <<files, sort_ties, fnVars>>

WidgetsShown == session = "live" /\ delta_df # EmptyRows

\* a browser session opens the page: widgets at their defaults
FirstRun ==
  /\ session = "new"
  /\ \E chartFails \in BOOLEAN :
        Run(selected_approach, selected_country, chartFails)

\* the user reruns the script without touching a widget
Rerun ==
  /\ session = "live"
  /\ \E chartFails \in BOOLEAN :
        Run(selected_approach, selected_country, chartFails)

\* the user picks the other radio option
SelectApproach ==
  /\ WidgetsShown
  /\ \E a \in Approaches \ {selected_approach}, chartFails \in BOOLEAN :
        Run(a, selected_country, chartFails)

\* the user picks another option of the selectbox
SelectCountry ==
  /\ WidgetsShown
  /\ \E c \in Keys(delta_df) \ {selected_country}, chartFails \in BOOLEAN :
        Run(selected_approach, c, chartFails)

\* the page is reloaded: a new session of the same server process
NewSession ==
  /\ session = "live"
  /\ session' = "new"
  /\ selected_approach' = ElectricTwin
  /\ selected_country' = <<>>
  /\ delta_df' = EmptyRows
  /\ baseline_df' = EmptyFrame
  /\ et_df' = EmptyFrame
  /\ notices' = <<>>
  /\ fig' = NoFigure
  /\ metrics' = <<>>
  /\ detail' = "none"
  /\ combined_scores' = <<>>
  /\ scores_df' = <<>>
  /\ crashed' = FALSE
  /\ UNCHANGED <<files, sort_ties, cache, fnVars>>

----------------------------------------------------------------------------
(* The data sets the runs start from *)

L_F == <<"F">>
L_F2021 == <<"F", " ", "(", "2", "0", "2", "1", ")">>
L_G == <<"G">>
L_G2020 == <<"G", "(", "2", "0", "2", "0", ")">>
\* a label that is a year suffix and nothing else: its key is the empty string
L_2021 == <<"(", "2", "0", "2", "1", ")">>
CountryList == <<L_F2021, L_G, L_F, L_G2020>>
CountryAt(i) == CountryList[((i - 1) % Len(CountryList)) + 1]

Digits == <<"1", "2", "3", "4", "5", "6", "7", "8", "9">>
QuestionCol(i) == <<"q", ".", Digits[i]>>
QuestionCols == [i \in 1..NumQuestions |-> QuestionCol(i)]
Columns == <<C_Country>> \o QuestionCols

DeltaRow(name, et, bl) ==
  [country |-> name, mean_SJSD_ET |-> et, mean_SJSD_Baseline |-> bl]
DeltaFile(rows) == [readable |-> TRUE, rows |-> rows]
QuestionFile(rows) == [readable |-> TRUE, columns |-> Columns, rows |-> rows]
Unreadable == [readable |-> FALSE, columns |-> <<>>, rows |-> <<>>]
QRow(name, cells) == <<name>> \o cells
AllCells(v) == [i \in 1..NumQuestions |-> v]

TieOrders(n) ==
  {p \in [1..n -> 1..n] : \A i, j \in 1..n : p[i] = p[j] => i = j}
Stable == [i \in 1..NumQuestions |-> i]

EtMeans == {NaN, Pct(40), Pct(85), Pct(105)}
BlMeans == {Pct(80), Pct(92)}
EtCells == {NaN, 0, 60004, Pct(90)}
BlCells == {NaN, 0, Pct(70)}

BaseDelta ==
  DeltaFile(<<DeltaRow(L_F2021, Pct(92), Pct(88)),
              DeltaRow(L_G, Pct(70), Pct(75))>>)
BaseEt == QuestionFile(<<QRow(L_F, AllCells(Pct(90)))>>)
BaseBaseline == QuestionFile(<<QRow(L_F2021, AllCells(Pct(70)))>>)
BaseFiles == [delta |-> BaseDelta, baseline |-> BaseBaseline, et |-> BaseEt]

\* summary tables of 0..MaxCountries rows over the mean scores
MapDatasets ==
  {[delta |-> DeltaFile([i \in 1..n |-> DeltaRow(CountryAt(i), et[i], bl[i])]),
    baseline |-> BaseBaseline, et |-> BaseEt] :
     <<n, et, bl>> \in
       UNION {{<<m, x, y>> : x \in [1..m -> EtMeans], y \in [1..m -> BlMeans]} :
              m \in 0..MaxCountries}}

\* per-question records of country F over the cell values, present or not;
\* country G has a record in the Electric Twin table only
DetailDatasets ==
  {[delta |-> BaseDelta,
    baseline |-> QuestionFile(bl),
    et |-> QuestionFile(et \o <<QRow(L_G2020, AllCells(Pct(90)))>>)] :
     et \in {<<>>} \cup {<<QRow(L_F, x)>> : x \in [1..NumQuestions -> EtCells]},
     bl \in {<<>>} \cup {<<QRow(L_F2021, y)>> : y \in [1..NumQuestions -> BlCells]}}

\* two records with the same key in a table
DuplicateDatasets ==
  {[delta |-> DeltaFile(<<DeltaRow(L_F2021, Pct(92), Pct(88)),
                          DeltaRow(L_F, Pct(50), NaN)>>),
    baseline |-> QuestionFile(<<QRow(L_F2021, AllCells(Pct(70))),
                                QRow(L_F, AllCells(0))>>),
    et |-> QuestionFile(<<QRow(L_F, AllCells(Pct(90))),
                          QRow(L_F2021, AllCells(NaN))>>)]}

\* a country whose key is the empty string, with or without a record in
\* each per-question table
EmptyKeyDatasets ==
  {[delta |-> DeltaFile(<<DeltaRow(L_G, Pct(70), Pct(75)),
                          DeltaRow(L_2021, Pct(92), Pct(88))>>),
    baseline |-> QuestionFile(<<QRow(L_G, AllCells(Pct(70)))>> \o bl),
    et |-> QuestionFile(<<QRow(L_G2020, AllCells(Pct(90)))>> \o et)] :
     et \in {<<>>, <<QRow(L_2021, AllCells(Pct(90)))>>},
     bl \in {<<>>, <<QRow(L_2021, AllCells(Pct(70)))>>}}

\* a file that cannot be read, a country cell that is not a string
BrokenDatasets ==
  {[BaseFiles EXCEPT !.delta = [readable |-> FALSE, rows |-> <<>>]],
   [BaseFiles EXCEPT !.baseline = Unreadable],
   [BaseFiles EXCEPT !.et = Unreadable],
   [BaseFiles EXCEPT !.delta =
      DeltaFile(<<DeltaRow(L_G, Pct(70), Pct(75)),
                  DeltaRow(NotAString, Pct(92), Pct(88))>>)],
   [BaseFiles EXCEPT !.baseline =
      QuestionFile(<<QRow(NotAString, AllCells(Pct(70)))>>)],
   [BaseFiles EXCEPT !.et =
      QuestionFile(<<QRow(L_F, AllCells(Pct(90))),
                     QRow(NotAString, AllCells(Pct(90)))>>)]}

Datasets ==
  ((MapDatasets \cup DuplicateDatasets \cup EmptyKeyDatasets
      \cup BrokenDatasets) \X {Stable})
  \cup (DetailDatasets \X TieOrders(NumQuestions))

----------------------------------------------------------------------------
(* Specification of the application *)

AppIdle ==
  /\ cache = <<>>
  /\ session = "new"
  /\ selected_approach = ElectricTwin
  /\ selected_country = <<>>
  /\ delta_df = EmptyRows
  /\ baseline_df = EmptyFrame
  /\ et_df = EmptyFrame
  /\ notices = <<>>
  /\ fig = NoFigure
  /\ metrics = <<>>
  /\ detail = "none"
  /\ combined_scores = <<>>
  /\ scores_df = <<>>
  /\ crashed = FALSE

NotClassified == [done |-> FALSE, category |-> 0, color |-> ""]
NotCleaned == [done |-> FALSE, delta |-> <<>>, baseline |-> <<>>, et |-> <<>>]

FnIdle ==
  /\ score = 0
  /\ classified = NotClassified
  /\ label = <<>>
  /\ cleaned = NotCleaned

Init ==
  /\ \E ds \in Datasets : files = ds[1] /\ sort_ties = ds[2]
  /\ AppIdle
  /\ FnIdle

Next ==
  \/ FirstRun
  \/ Rerun
  \/ SelectApproach
  \/ SelectCountry
  \/ NewSession

Spec == Init /\ [][Next]_vars

----------------------------------------------------------------------------
(* Specification of the score classifier alone: every score of [0, 1] *)

Classify ==
  /\ ~classified.done
  /\ classified' = [done |-> TRUE, category |-> get_category(score),
                    color |-> get_color(score)]
  /\ UNCHANGED <<appVars, score, label, cleaned>>

InitClassify ==
  /\ files = BaseFiles /\ sort_ties = Stable /\ AppIdle
  /\ score \in 0..Scale
  /\ classified = NotClassified
  /\ label = <<>>
  /\ cleaned = NotCleaned

SpecClassify == InitClassify /\ [][Classify]_vars

----------------------------------------------------------------------------
(* Specification of the normalizer alone: every label of up to MaxLabelLen *)
(* characters, loaded as the country of a row of each table               *)

LabelAlphabet == {"F", " ", "(", "2", ")"}

FilesOf(name) ==
  [delta |-> DeltaFile(<<DeltaRow(name, Pct(92), Pct(88))>>),
   baseline |-> QuestionFile(<<QRow(name, AllCells(Pct(70)))>>),
   et |-> QuestionFile(<<QRow(name, AllCells(Pct(90)))>>)]

LoadedKeys(loaded) ==
  [done |-> TRUE,
   delta |-> loaded.delta_df[1].country_clean,
   baseline |-> First(loaded.baseline_df, C_Country_clean),
   et |-> First(loaded.et_df, C_Country_clean)]

\* one more character of the label, and the tables loaded with it
TypeChar ==
  /\ Len(label) < MaxLabelLen
  /\ \E c \in LabelAlphabet :
     \E loaded \in {load_data(FilesOf(Append(label, c)))} :
        /\ label' = Append(label, c)
        /\ cleaned' = LoadedKeys(loaded)
  /\ UNCHANGED <<appVars, score, classified>>

InitNormalize ==
  /\ files = BaseFiles /\ sort_ties = Stable /\ AppIdle
  /\ FnIdle

SpecNormalize == InitNormalize /\ [][TypeChar]_vars

----------------------------------------------------------------------------
(* Claims *)

\* C1: every score of [0, 1] gets exactly one of the five categories, by the
\* bands < 0.80, [0.80, 0.85), [0.85, 0.90), [0.90, 0.95), >= 0.95, each
\* boundary in the upper band, and get_color gives the colour of that band.
C1_FiveBands ==
  classified.done =>
    /\ classified.category \in 1..5
    /\ classified.category = 1 <=> score < Pct(80)
    /\ classified.category = 2 <=> (Pct(80) <= score /\ score < Pct(85))
    /\ classified.category = 3 <=> (Pct(85) <= score /\ score < Pct(90))
    /\ classified.category = 4 <=> (Pct(90) <= score /\ score < Pct(95))
    /\ classified.category = 5 <=> Pct(95) <= score
    /\ classified.color =
         <<"#8B0000", "#FF4500", "#FFFF00", "#90EE90", "#008000">>
           [classified.category]

C1_BoundaryInUpperBand ==
  classified.done /\ score = Pct(90) /\ classified.category = 4
  /\ classified.color = "#90EE90"

C3_DescendingStable ==
  detail = "table" =>
    LET Pos(k) == CHOOSE j \in DOMAIN combined_scores :
                    combined_scores[j].Question = scores_df[k].Question
        Raw(k) == combined_scores[Pos(k)].ElectricTwin
    IN \A i, j \in DOMAIN scores_df :
          i < j => /\ Raw(i) >= Raw(j)
                   /\ Raw(i) = Raw(j) => Pos(i) < Pos(j)

\* two rows of equal Electric Twin score displayed against their column order
C3_TiesReordered ==
  /\ detail = "table"
  /\ Len(combined_scores) = 2 /\ Len(scores_df) = 2
  /\ combined_scores[1].ElectricTwin = combined_scores[2].ElectricTwin
  /\ scores_df[1].Question = combined_scores[2].Question
  /\ scores_df[2].Question = combined_scores[1].Question

\* C4: a country without a record is shown as absent, never as zero: the
\* metrics, when displayed, are those of its summary row, and without a
\* record in either per-question table the no-data message is shown, no
\* comparison is built and nothing is raised.
C4_AbsentIsNotZero ==
  WidgetsShown =>
    LET Rows == {i \in DOMAIN delta_df :
                   delta_df[i].country_clean = selected_country}
        cc == ColIndex(et_df, C_Country_clean)
        bc == ColIndex(baseline_df, C_Country_clean)
        EtHits == {i \in DOMAIN et_df.rows : et_df.rows[i][cc] = selected_country}
        BlHits == {i \in DOMAIN baseline_df.rows :
                     baseline_df.rows[i][bc] = selected_country}
    IN /\ Rows = {} => metrics = <<>>
       /\ metrics # <<>> =>
            /\ Rows # {}
            /\ LET r == delta_df[SetMin(Rows)]
               IN /\ r.mean_SJSD_ET # NaN /\ r.mean_SJSD_Baseline # NaN
                  /\ metrics = <<Round4(r.mean_SJSD_ET),
                                 Round4(r.mean_SJSD_Baseline),
                                 Round4(r.mean_SJSD_ET - r.mean_SJSD_Baseline)>>
       /\ (EtHits = {} \/ BlHits = {}) =>
            /\ detail = "no_data"
            /\ combined_scores = <<>>
            /\ scores_df = <<>>
            /\ ~crashed

\* the selected country has the empty key and no per-question record, and
\* the run shows its metrics but neither a table nor the no-data message
C4_EmptyKeySkipped ==
  /\ WidgetsShown
  /\ selected_country = <<>>
  /\ metrics = <<Pct(92), Pct(88), Pct(92) - Pct(88)>>
  /\ detail = "none"
  /\ \A i \in DOMAIN et_df.rows :
        et_df.rows[i][ColIndex(et_df, C_Country_clean)] # <<>>
  /\ \A i \in DOMAIN baseline_df.rows :
        baseline_df.rows[i][ColIndex(baseline_df, C_Country_clean)] # <<>>
  /\ ~crashed

\* C5: no run ends in an exception nothing caught; each run ends with the
\* map or its retry notice and with the comparison table or the no-data
\* message, or with the no-data notice alone.
C5_NoUnhandledException ==
  session = "live" =>
    /\ ~crashed
    /\ \/ delta_df = EmptyRows /\ notices[Len(notices)] = "No data available"
       \/ /\ fig.kind = "figure" \/ notices = <<"Error creating map">>
          /\ detail \in {"table", "no_data"}

\* records in both tables, no pair passing the filter: sort_values raises
C5_EmptyComparisonRaises ==
  /\ session = "live" /\ fig.kind = "figure"
  /\ selected_country = L_F
  /\ combined_scores = <<>>
  /\ detail = "exception"
  /\ crashed

\* C6: when a file cannot be read or a country cell is not a string, the
\* failure is reported, the three tables are empty, and the run ends in the
\* no-data state without map, selection, summary or comparison.
C6_LoadFailureDegrades ==
  LET BadLabel(f) ==
        \E i \in DOMAIN f.rows : f.rows[i][1] = NotAString
      Fails ==
        \/ ~files.delta.readable \/ ~files.baseline.readable \/ ~files.et.readable
        \/ \E i \in DOMAIN files.delta.rows :
              files.delta.rows[i].country = NotAString
        \/ BadLabel(files.baseline) \/ BadLabel(files.et)
  IN (session = "live" /\ Fails) =>
       /\ notices = <<"Error loading data", "No data available">>
       /\ delta_df = <<>>
       /\ baseline_df = [columns |-> <<>>, rows |-> <<>>]
       /\ et_df = [columns |-> <<>>, rows |-> <<>>]
       /\ fig.kind = "none"
       /\ selected_country = <<>>
       /\ metrics = <<>>
       /\ detail = "none"
       /\ combined_scores = <<>> /\ scores_df = <<>>
       /\ ~crashed

C6_FailureReported ==
  /\ session = "live"
  /\ files.et.readable /\ files.baseline.readable /\ files.delta.readable
  /\ notices = <<"Error loading data", "No data available">>
  /\ delta_df = <<>>

\* C7: the legend bounds are min(lowest observed score, 0.5) and
\* max(highest observed score, 1.0): they span at least [0.5, 1.0], hold
\* every observed score, and leave 0.5 or 1.0 only for an observed score
\* outside.
C7_LegendBounds ==
  LET Observed ==
        {Cell(delta_df[i], col_name(selected_approach)) : i \in DOMAIN delta_df}
          \ {NaN}
  IN (session = "live" /\ fig.kind = "figure" /\ Observed # {}) =>
       LET lower_bound == fig.tickvals[1]
           upper_bound == fig.tickvals[2]
       IN /\ lower_bound <= Pct(50) /\ upper_bound >= Pct(100)
          /\ \A x \in Observed : lower_bound <= x /\ x <= upper_bound
          /\ lower_bound \in Observed \cup {Pct(50)}
          /\ upper_bound \in Observed \cup {Pct(100)}

C7_LegendWidened ==
  /\ session = "live" /\ fig.kind = "figure"
  /\ selected_approach = ElectricTwin
  /\ fig.tickvals = <<Pct(40), Pct(105)>>

\* C8: the base tables stay as load_data returned them, and the views of a
\* run are those a first run of a fresh process shows for the same approach
\* and country, whatever ran before.
C8_ViewsOfSelectionOnly ==
  session = "live" =>
    LET fresh == load_data(files)
        r == Script(fresh, selected_approach, selected_country,
                    fig.kind = "error")
    IN /\ cache # <<>> => cache[1] = fresh
       /\ fresh.ok => /\ delta_df = fresh.delta_df
                      /\ baseline_df = fresh.baseline_df
                      /\ et_df = fresh.et_df
       /\ fig = r.fig
       /\ metrics = r.metrics
       /\ detail = r.detail.shown
       /\ scores_df = r.detail.scores_df

C8_AfterSeveralSelections ==
  /\ session = "live" /\ cache # <<>>
  /\ selected_approach = Baseline
  /\ selected_country = L_G
  /\ fig.kind = "figure"
  /\ Len(fig.traces) = 2

\* C9 as amended: a trailing "(YYYY)" is removed together with the whole run
\* of whitespace before it, every other label is unchanged, and the three
\* tables get the same key.
C9_TrailingYearStripped ==
  cleaned.done =>
    LET n == Len(label)
        HasYear == /\ n >= YearDigits + 2
                   /\ label[n] = ")"
                   /\ label[n - YearDigits - 1] = "("
                   /\ \A d \in 1..YearDigits : IsDigit(label[n - d])
        key == cleaned.delta
    IN /\ cleaned.baseline = key /\ cleaned.et = key
       /\ ~HasYear => key = label
       /\ HasYear =>
            /\ Len(key) <= n - YearDigits - 2
            /\ key = SubSeq(label, 1, Len(key))
            /\ \A j \in (Len(key) + 1)..(n - YearDigits - 2) : IsSpace(label[j])
            /\ Len(key) > 0 => ~IsSpace(key[Len(key)])

C9_TwoSpacesStripped ==
  /\ cleaned.done
  /\ label = <<" ", " ", "(", "2", "2", "2", "2", ")">>
  /\ cleaned.delta = <<>>

\* C9 as stated: at most one space goes with the "(YYYY)".
C9_OptionalSpaceOnly ==
  cleaned.done =>
    LET n == Len(label)
        HasYear == /\ n >= YearDigits + 2
                   /\ label[n] = ")"
                   /\ label[n - YearDigits - 1] = "("
                   /\ \A d \in 1..YearDigits : IsDigit(label[n - d])
        rest == n - YearDigits - 2
        expected == IF ~HasYear THEN label
                    ELSE IF rest >= 1 /\ label[rest] = " "
                         THEN SubSeq(label, 1, rest - 1)
                         ELSE SubSeq(label, 1, rest)
    IN cleaned.delta = expected /\ cleaned.baseline = expected
       /\ cleaned.et = expected

\* C10: every row of the summary table is in exactly one trace of the map,
\* the trace of get_category of its score, whose colour is get_color of it.
C10_OneTracePerRow ==
  (session = "live" /\ fig.kind = "figure") =>
    LET col == col_name(selected_approach)
        InTrace(t, i) ==
          Cardinality({j \in DOMAIN fig.traces[t].locations :
             /\ fig.traces[t].locations[j] = delta_df[i].country_clean
             /\ fig.traces[t].z[j] = Cell(delta_df[i], col)})
        Same(i) ==
          Cardinality({k \in DOMAIN delta_df :
             /\ delta_df[k].country_clean = delta_df[i].country_clean
             /\ Cell(delta_df[k], col) = Cell(delta_df[i], col)})
    IN /\ \A i \in DOMAIN delta_df :
            \E t \in DOMAIN fig.traces :
               /\ InTrace(t, i) = Same(i)
               /\ fig.traces[t].category = get_category(Cell(delta_df[i], col))
               /\ fig.traces[t].color = get_color(Cell(delta_df[i], col))
               /\ \A u \in DOMAIN fig.traces : u # t => InTrace(u, i) = 0
       /\ \A t \in DOMAIN fig.traces :
            /\ Len(fig.traces[t].z) = Len(fig.traces[t].locations)
            /\ \A j \in DOMAIN fig.traces[t].locations :
                  \E i \in DOMAIN delta_df :
                     /\ fig.traces[t].locations[j] = delta_df[i].country_clean
                     /\ fig.traces[t].z[j] = Cell(delta_df[i], col)

C10_RowsInTwoTraces ==
  /\ session = "live" /\ fig.kind = "figure"
  /\ selected_approach = Baseline
  /\ Len(delta_df) = 2
  /\ Len(fig.traces) = 2
  /\ fig.traces[1].category = 4 /\ fig.traces[2].category = 2

====
